---- MODULE Spec2Model ----
(***************************************************************************)
(* Model of the concurrent utilities of cs492-concur/homework:             *)
(*   - hash_table/split_ordered_list.rs : SplitOrderedList (lock-free map) *)
(*   - hello_server/thread_pool.rs      : ThreadPool                       *)
(*   - list_set.rs                      : OrderedListSet (lock coupling)   *)
(* The lock-free list of the lockfree crate (Cursor::find_harris, insert,  *)
(* delete) is a collaborator whose source is not part of src/; it is       *)
(* modelled as the Harris-style list that spec.md sections 1, 4 and 6      *)
(* describe, one atomic memory access per step.                            *)
(***************************************************************************)
EXTENDS Integers, Sequences, FiniteSets, TLC

VARIABLES
    nodes,      \* list nodes ever linked: Seq of [key, value, next, mark]
    head,       \* List::head, a node id (0 is the null pointer)
    buckets,    \* GrowableArray: bucket index -> node id (0 is null)
    size,       \* SplitOrderedList::size
    count,      \* SplitOrderedList::count
    th,         \* per thread: position and locals of the running operation
    last,       \* history: key -> value of the last insert that returned Ok
                \*          and was not followed by a delete that returned Ok
    nInsOk,     \* history: number of inserts that returned Ok
    nDelOk,     \* history: number of deletes that returned Ok
    job_queue,  \* ThreadPool: the channel, a FIFO of job ids
    job_sender, \* ThreadPool::job_sender is Some
    job_count,  \* ThreadPoolInner::job_count
    notified,   \* ThreadPoolInner::empty_condvar has a pending wake-up
    workers,    \* ThreadPool::workers: per worker thread [pc, job]
    jobs,       \* the jobs passed to execute: Seq of [kind, st]
    main,       \* the thread that owns the pool
    ls_nodes,   \* OrderedListSet: nodes ever allocated, Seq of
                \*                 [data, next, freed]
    ls_head,    \* OrderedListSet::head, the pointer in the Mutex (0 is null)
    ls_locked,  \* Mutex -> thread holding its guard, or 0; Mutex 0 is head,
                \*          Mutex n is Node n's next
    ls_th,      \* per thread: position and locals of the running operation
    ls_ins,     \* history: key -> number of inserts that returned Ok
    ls_rem      \* history: key -> number of removes that returned Ok

vars == <<nodes, head, buckets, size, count, th, last, nInsOk, nDelOk,
          job_queue, job_sender, job_count, notified, workers, jobs, main,
          ls_nodes, ls_head, ls_locked, ls_th, ls_ins, ls_rem>>
\* the state of SplitOrderedList with its threads and history
solVars == <<nodes, head, buckets, size, count, th, last, nInsOk, nDelOk>>
\* the history variables, and the state of the other components
hist == <<last, nInsOk, nDelOk>>
\* the state of OrderedListSet with its threads and history
listSet == <<ls_nodes, ls_head, ls_locked, ls_th, ls_ins, ls_rem>>
outside == <<job_queue, job_sender, job_count, notified, workers, jobs, main,
             listSet>>
\* the state of ThreadPool with its threads
pool == <<job_queue, job_sender, job_count, notified, workers, jobs, main>>

----------------------------------------------------------------------------
(* Bounds of the model *)

\* width of the machine word (usize) of the model
WordBits == 5
\* threads calling the map
NumThreads == 2
\* operations per thread under Spec
MaxOps == 2
\* user keys 0..MaxKey are drawn under Spec
MaxKey == 2

(* Program constants *)
LOAD_FACTOR == 2
InitialSize == 2

Modulus == 2 ^ WordBits
MaxWord == Modulus - 1
Threads == 1 .. NumThreads
\* the smallest key with the top bit set
BadKey == 2 ^ (WordBits - 1)
Words == 0 .. MaxWord

----------------------------------------------------------------------------
(* Pure functions *)

RECURSIVE RevBits(_, _)
RevBits(x, n) ==
    IF n = 0 THEN 0
    ELSE (x % 2) * (2 ^ (n - 1)) + RevBits(x \div 2, n - 1)

\* usize::reverse_bits
reverse_bits(x) == RevBits(x, WordBits)

\* x | 1
BitOr1(x) == IF x % 2 = 0 THEN x + 1 ELSE x

\* key of the sentinel node of bucket index
SentinelKey(index) == reverse_bits(index)

\* key of the regular node of a user key
RegularKey(key) == BitOr1(reverse_bits(key))

\* key.leading_zeros() != 0
valid_key(key) == key < 2 ^ (WordBits - 1)

RECURSIVE ShiftDown(_, _)
ShiftDown(parent, my_bucket) ==
    LET p == parent \div 2
    IN  IF p <= my_bucket THEN p ELSE ShiftDown(p, my_bucket)

\* lookup_bucket::get_parent
get_parent(my_bucket, sz) == my_bucket - ShiftDown(sz, my_bucket)

----------------------------------------------------------------------------
(* Shared memory: an atomic pointer is named by a location:                 *)
(*   0       List::head                                                     *)
(*   n > 0   the next field of node n                                       *)
(*   -(i+1)  the slot of bucket i in the GrowableArray                      *)

SlotLoc(i) == -(i + 1)

LoadPtr(loc) ==
    IF loc = 0 THEN head
    ELSE IF loc > 0 THEN nodes[loc].next
    ELSE buckets[-loc - 1]

LoadTag(loc) == loc > 0 /\ nodes[loc].mark

\* compare-and-set of location loc from the untagged pointer exp succeeds
CasOk(loc, exp) == LoadPtr(loc) = exp /\ ~LoadTag(loc)

HeadAfter(loc, p) == IF loc = 0 THEN p ELSE head
NodesAfter(loc, p) == IF loc > 0 THEN [nodes EXCEPT ![loc].next = p] ELSE nodes
BucketsAfter(loc, p) ==
    IF loc < 0 THEN [buckets EXCEPT ![-loc - 1] = p] ELSE buckets

\* nodes reachable from the head, marked ones included
RECURSIVE Walk(_, _)
Walk(p, seen) ==
    IF p = 0 \/ p \in seen THEN seen ELSE Walk(nodes[p].next, seen \cup {p})

Reachable == Walk(head, {})

\* the live nodes: linked and not marked deleted
LiveNodes == {n \in Reachable : ~nodes[n].mark}

LiveWithKey(k) == {n \in LiveNodes : nodes[n].key = k}

\* the value the map holds for user key k (0: none)
LiveVal(k) ==
    IF LiveWithKey(RegularKey(k)) = {} THEN 0
    ELSE nodes[CHOOSE n \in LiveWithKey(RegularKey(k)) : TRUE].value

----------------------------------------------------------------------------
(* Threads.  th[t] holds the program counter and the locals of the         *)
(* operation thread t is running; the cursor of the lockfree list is       *)
(* (prev, curr): prev a location, curr a node id.                          *)

IdleThread ==
    [pc |-> "idle", op |-> "none", key |-> 0, val |-> 0, size |-> 0,
     stack |-> <<>>, prev |-> 0, curr |-> 0, prev_next |-> 0,
     found |-> FALSE, ckpt_prev |-> 0, ckpt_curr |-> 0, next |-> 0,
     res_ok |-> FALSE, res_val |-> 0, pre |-> 0, lin |-> 0,
     changed |-> FALSE, dcount |-> 0, linked |-> 0, resized |-> FALSE,
     why |-> "none", ops |-> 0, spun |-> FALSE, seen |-> InitialSize,
     tries |-> 0]

SolInit ==
    /\ nodes = <<>>
    /\ head = 0
    /\ buckets = [i \in Words |-> 0]
    /\ size = InitialSize
    /\ count = 0
    /\ th = [t \in Threads |-> IdleThread]
    /\ last = [k \in 0 .. (BadKey - 1) |-> 0]
    /\ nInsOk = 0
    /\ nDelOk = 0

\* program counters inside the find-or-insert loop of lookup_bucket
LoopPcs == {"lb_find", "lb_clean", "lb_cas"}

\* thread t moves to r and shared memory of the list is left alone
Local(t, r) == th' = [th EXCEPT ![t] = r]

\* thread t moves to r having changed the list: every thread inside the
\* loop of lookup_bucket has seen a change during its iteration
Wrote(t, r) ==
    th' = [u \in Threads |->
             LET x == IF u = t THEN r ELSE th[u]
             IN  IF x.pc \in LoopPcs THEN [x EXCEPT !.changed = TRUE] ELSE x]

Ret(r, ok, v) == [r EXCEPT !.pc = "ret", !.res_ok = ok, !.res_val = v]
Panic(r, why) == [r EXCEPT !.pc = "panic", !.why = why]

\* the unique value token of the next operation of a thread
Token(t, r) == t * 10 + r.ops + 1

\* size.load(Ordering::Relaxed), line 103: the load may return the current
\* size or an older one, but none older than the thread has seen already
RelaxedSizes(seen) ==
    {sz \in seen .. size : \E j \in 0 .. WordBits : sz = InitialSize * (2 ^ j)}

(* SplitOrderedList::{lookup, insert, delete}: assert_valid_key, then the   *)
(* first access of find, the load of size, and the call of lookup_bucket.   *)
Begin(t, o, k) ==
    LET r == th[t]
        b == [r EXCEPT !.op = o, !.key = k, !.ops = r.ops + 1,
                       !.val = IF o = "insert" THEN Token(t, r) ELSE 0]
    IN  /\ r.pc = "idle"
        /\ IF ~valid_key(k)
           THEN Local(t, Panic(b, "assert_valid_key"))
           ELSE \E sz \in RelaxedSizes(r.seen) :
                  Local(t, [b EXCEPT !.pc = "lb_load", !.size = sz,
                                     !.seen = sz, !.pre = last[k],
                                     !.stack = <<k % sz>>])
        /\ UNCHANGED <<nodes, head, buckets, size, count, hist, outside>>

\* lookup_bucket returns cursor (p, c) to its caller: either an outer
\* lookup_bucket, which saves it as ckpt and enters its loop, or find
LbReturn(r, p, c) ==
    LET rest == Tail(r.stack)
    IN  IF rest = <<>>
        THEN [r EXCEPT !.stack = rest, !.prev = p, !.curr = c,
                       !.prev_next = c, !.pc = "find",
                       !.ckpt_prev = 0, !.ckpt_curr = 0, !.changed = FALSE]
        ELSE [r EXCEPT !.stack = rest, !.prev = p, !.curr = c,
                       !.prev_next = c, !.ckpt_prev = p, !.ckpt_curr = c,
                       !.pc = "lb_find", !.changed = FALSE]

StartAtHeadAlways(parent) == TRUE
\* lookup_bucket, line 70: if parent == 0
StartAtHead(parent) == parent = 0

\* lookup_bucket, lines 65-74: load the slot; fast path, or go to the parent
LbLoad(t) ==
    LET r == th[t]
        index == Head(r.stack)
        shared == buckets[index]
        parent == get_parent(index, r.size)
    IN  /\ r.pc = "lb_load"
        /\ IF shared # 0
           THEN Local(t, LbReturn(r, SlotLoc(index), shared))
           ELSE IF StartAtHead(parent)
                THEN Local(t, [r EXCEPT !.pc = "lb_head"])
                ELSE Local(t, [r EXCEPT !.stack = <<parent>> \o r.stack])
        /\ UNCHANGED <<nodes, head, buckets, size, count, hist, outside>>

\* lookup_bucket, lines 71 and 75: cursor = list.head(guard); ckpt = cursor
LbHead(t) ==
    LET r == th[t]
    IN  /\ r.pc = "lb_head"
        /\ Local(t, [r EXCEPT !.prev = 0, !.curr = head, !.prev_next = head,
                              !.ckpt_prev = 0, !.ckpt_curr = head,
                              !.pc = "lb_find", !.changed = FALSE])
        /\ UNCHANGED <<nodes, head, buckets, size, count, hist, outside>>

\* one iteration of the loop of Cursor::find_harris: one load of curr.next
FindHarrisIter(r, target) ==
    IF r.curr = 0 THEN <<"done", [r EXCEPT !.found = FALSE]>>
    ELSE LET n == nodes[r.curr]
         IN  IF n.mark THEN <<"more", [r EXCEPT !.curr = n.next]>>
             ELSE IF n.key < target
                  THEN <<"more", [r EXCEPT !.curr = n.next, !.prev = r.curr,
                                           !.prev_next = n.next]>>
                  ELSE <<"done", [r EXCEPT !.found = (n.key = target)]>>

\* lookup_bucket, line 78 after a failed attempt: cursor = ckpt.clone().
\* A retry of an iteration during which no thread changed the list repeats
\* for ever: spun records it.
LbRetry(r) ==
    [r EXCEPT !.prev = r.ckpt_prev, !.curr = r.ckpt_curr,
              !.prev_next = r.ckpt_curr, !.pc = "lb_find",
              !.spun = r.spun \/ ~r.changed, !.changed = FALSE]

LbFoundIgnored(r) == [r EXCEPT !.pc = "lb_cas"]
\* lookup_bucket, lines 79-83: the outcome Ok(found) of find_harris
LbFound(r) ==
    IF r.found THEN [r EXCEPT !.pc = "lb_store"] ELSE [r EXCEPT !.pc = "lb_cas"]

\* lookup_bucket, line 79: find_harris for the sentinel key, one iteration
LbFind(t) ==
    LET r == th[t]
        it == FindHarrisIter(r, SentinelKey(Head(r.stack)))
        x == it[2]
    IN  /\ r.pc = "lb_find"
        /\ IF it[1] = "more" THEN Local(t, x)
           ELSE IF x.prev_next = x.curr THEN Local(t, LbFound(x))
           ELSE Local(t, [x EXCEPT !.pc = "lb_clean"])
        /\ UNCHANGED <<nodes, head, buckets, size, count, hist, outside>>

\* find_harris, the clean-up: unlink the marked nodes between prev and curr
LbClean(t) ==
    LET r == th[t]
    IN  /\ r.pc = "lb_clean"
        /\ IF CasOk(r.prev, r.prev_next)
           THEN /\ head' = HeadAfter(r.prev, r.curr)
                /\ nodes' = NodesAfter(r.prev, r.curr)
                /\ buckets' = BucketsAfter(r.prev, r.curr)
                /\ Wrote(t, LbFound(r))
           ELSE /\ Local(t, LbRetry(r))
                /\ UNCHANGED <<nodes, head, buckets>>
        /\ UNCHANGED <<size, count, hist, outside>>

NewNode(k, v, nxt) == [key |-> k, value |-> v, next |-> nxt, mark |-> FALSE]

\* lookup_bucket, lines 84-87: Cursor::insert of the sentinel node
LbCas(t) ==
    LET r == th[t]
        id == Len(nodes) + 1
        nn == NewNode(SentinelKey(Head(r.stack)), 0, r.curr)
    IN  /\ r.pc = "lb_cas"
        /\ IF CasOk(r.prev, r.curr)
           THEN /\ head' = HeadAfter(r.prev, id)
                /\ nodes' = Append(NodesAfter(r.prev, id), nn)
                /\ buckets' = BucketsAfter(r.prev, id)
                /\ Wrote(t, [r EXCEPT !.curr = id, !.pc = "lb_store"])
           ELSE /\ Local(t, LbRetry(r))
                /\ UNCHANGED <<nodes, head, buckets>>
        /\ UNCHANGED <<size, count, hist, outside>>

\* lookup_bucket, lines 89-90: publish the sentinel and return the cursor
LbStore(t) ==
    LET r == th[t]
    IN  /\ r.pc = "lb_store"
        /\ buckets' = [buckets EXCEPT ![Head(r.stack)] = r.curr]
        /\ Local(t, LbReturn(r, r.prev, r.curr))
        /\ UNCHANGED <<nodes, head, size, count, hist, outside>>

(* SplitOrderedList::find, lines 105-109, and what each operation does     *)
(* with its result.                                                        *)

\* lookup, lines 120-125: cursor.lookup().unwrap().as_ref(), or None
LookupResultAnyCursor(r) ==
    IF r.curr # 0 THEN Ret(r, nodes[r.curr].value # 0, nodes[r.curr].value)
    ELSE Ret(r, FALSE, 0)
LookupResult(r) ==
    IF r.found
    THEN IF r.curr = 0 THEN Panic(r, "unwrap")
         ELSE Ret(r, nodes[r.curr].value # 0, nodes[r.curr].value)
    ELSE Ret(r, FALSE, 0)

\* insert, lines 131-135: a found key rejects the value
InsertAfterFindIgnoringFound(r) == [r EXCEPT !.pc = "ins_cas"]
InsertAfterFindOkOnFound(r) ==
    IF r.found THEN Ret(r, TRUE, 0) ELSE [r EXCEPT !.pc = "ins_cas"]
InsertAfterFind(r) ==
    IF r.found THEN Ret(r, FALSE, r.val) ELSE [r EXCEPT !.pc = "ins_cas"]

\* delete, lines 149-153: an absent key is an error
DeleteAfterFind(r) ==
    IF r.found = FALSE THEN Ret(r, FALSE, 0) ELSE [r EXCEPT !.pc = "del_mark"]

\* find returned (size, found, cursor) to the operation
AfterFind(r) ==
    CASE r.op = "lookup" -> LookupResult(r)
      [] r.op = "insert" -> InsertAfterFind(r)
      [] r.op = "delete" -> DeleteAfterFind(r)

\* find, line 106: find_harris for the regular key, one iteration.  lin is
\* the value the map holds for the key when the loop of find_harris ends.
Find(t) ==
    LET r == th[t]
        it == FindHarrisIter(r, RegularKey(r.key))
        x == [it[2] EXCEPT !.lin = IF it[1] = "done" THEN LiveVal(r.key) ELSE 0]
    IN  /\ r.pc = "find"
        /\ IF it[1] = "more" THEN Local(t, x)
           ELSE IF x.prev_next = x.curr THEN Local(t, AfterFind(x))
           ELSE Local(t, [x EXCEPT !.pc = "f_clean"])
        /\ UNCHANGED <<nodes, head, buckets, size, count, hist, outside>>

\* find_harris, the clean-up; on Err find calls find_harris again with the
\* cursor as the failed call left it (line 105: loop)
FClean(t) ==
    LET r == th[t]
    IN  /\ r.pc = "f_clean"
        /\ IF CasOk(r.prev, r.prev_next)
           THEN /\ head' = HeadAfter(r.prev, r.curr)
                /\ nodes' = NodesAfter(r.prev, r.curr)
                /\ buckets' = BucketsAfter(r.prev, r.curr)
                /\ Wrote(t, AfterFind(r))
           ELSE /\ Local(t, [r EXCEPT !.pc = "find", !.prev_next = r.curr])
                /\ UNCHANGED <<nodes, head, buckets>>
        /\ UNCHANGED <<size, count, hist, outside>>

InsertLostCasRetries(r) == [r EXCEPT !.pc = "find", !.prev_next = r.curr]
\* insert, line 143: Err(owned) of cursor.insert returns the value
InsertLostCas(r) == Ret(r, FALSE, r.val)

\* insert, lines 135 and 143: Cursor::insert of the regular node; a lost
\* compare-and-set returns the value.  tries counts the calls of
\* cursor.insert by this call of insert.
InsCas(t) ==
    LET r == [th[t] EXCEPT !.tries = th[t].tries + 1]
        id == Len(nodes) + 1
        nn == NewNode(RegularKey(r.key), r.val, r.curr)
    IN  /\ r.pc = "ins_cas"
        /\ IF CasOk(r.prev, r.curr)
           THEN /\ head' = HeadAfter(r.prev, id)
                /\ nodes' = Append(NodesAfter(r.prev, id), nn)
                /\ buckets' = BucketsAfter(r.prev, id)
                /\ Wrote(t, [r EXCEPT !.curr = id, !.pc = "ins_add",
                                      !.linked = r.linked + 1])
           ELSE /\ Local(t, InsertLostCas(r))
                /\ UNCHANGED <<nodes, head, buckets>>
        /\ UNCHANGED <<size, count, hist, outside>>

\* insert, line 138: count > size * LOAD_FACTOR
GrowNeededNever(cnt, sz) == FALSE
GrowNeeded(cnt, sz) == cnt > (sz * LOAD_FACTOR) % Modulus

CountAfterAddNone(c) == c
\* insert, line 137: count.fetch_add(1)
CountAfterAdd(c) == (c + 1) % Modulus

\* insert, lines 137-138: fetch_add wraps; the additions and products of
\* plain usize panic on overflow in a build with overflow checks and wrap
\* in one without
InsAdd(t) ==
    LET r == th[t]
        overflow == count + 1 > MaxWord \/ r.size * LOAD_FACTOR > MaxWord
        cnt == (count + 1) % Modulus
        delta == (CountAfterAdd(count) + Modulus - count) % Modulus
    IN  /\ r.pc = "ins_add"
        /\ count' = CountAfterAdd(count)
        /\ \E checked \in (IF overflow THEN BOOLEAN ELSE {FALSE}) :
             IF checked
             THEN Local(t, Panic([r EXCEPT !.dcount = delta], "overflow"))
             ELSE IF GrowNeeded(cnt, r.size)
                  THEN Local(t, [r EXCEPT !.dcount = delta, !.pc = "ins_grow"])
                  ELSE Local(t, Ret([r EXCEPT !.dcount = delta], TRUE, 0))
        /\ UNCHANGED <<nodes, head, buckets, size, hist, outside>>

\* insert, line 139: size.compare_and_swap(size, size * 2)
InsGrow(t) ==
    LET r == th[t]
    IN  /\ r.pc = "ins_grow"
        /\ IF size = r.size
           THEN /\ size' = (r.size * 2) % Modulus
                /\ Local(t, Ret([r EXCEPT !.resized = TRUE, !.seen = size'],
                                TRUE, 0))
           ELSE /\ size' = size
                /\ Local(t, Ret([r EXCEPT !.seen = size], TRUE, 0))
        /\ UNCHANGED <<nodes, head, buckets, count, hist, outside>>

\* delete, line 153, Cursor::delete: mark curr.next (fetch_or); a node
\* that is marked already is a conflict
DelMark(t) ==
    LET r == th[t]
    IN  /\ r.pc = "del_mark"
        /\ IF nodes[r.curr].mark
           THEN /\ Local(t, Ret(r, FALSE, 0))
                /\ nodes' = nodes
           ELSE /\ nodes' = [nodes EXCEPT ![r.curr].mark = TRUE]
                /\ Wrote(t, [r EXCEPT !.pc = "del_unlink",
                                      !.next = nodes[r.curr].next])
        /\ UNCHANGED <<head, buckets, size, count, hist, outside>>

\* Cursor::delete: try to unlink the marked node; the outcome is ignored
DelUnlink(t) ==
    LET r == th[t]
        x == [r EXCEPT !.pc = "del_sub"]
    IN  /\ r.pc = "del_unlink"
        /\ IF CasOk(r.prev, r.curr)
           THEN /\ head' = HeadAfter(r.prev, r.next)
                /\ nodes' = NodesAfter(r.prev, r.next)
                /\ buckets' = BucketsAfter(r.prev, r.next)
                /\ Wrote(t, x)
           ELSE /\ Local(t, x)
                /\ UNCHANGED <<nodes, head, buckets>>
        /\ UNCHANGED <<size, count, hist, outside>>

CountAfterSubNone(c) == c
CountAfterSubTwice(c) == (c + Modulus - 2) % Modulus
\* delete, line 154: count.fetch_sub(1), which wraps
CountAfterSub(c) == (c + Modulus - 1) % Modulus

\* delete, lines 153-155: Ok(Some(value)) decrements count and returns
DelSub(t) ==
    LET r == th[t]
        v == nodes[r.curr].value
        delta == (CountAfterSub(count) + Modulus - count) % Modulus
    IN  /\ r.pc = "del_sub"
        /\ IF v # 0
           THEN /\ count' = CountAfterSub(count)
                /\ Local(t, Ret([r EXCEPT !.dcount = delta], TRUE, v))
           ELSE /\ count' = count
                /\ Local(t, Ret(r, FALSE, 0))
        /\ UNCHANGED <<nodes, head, buckets, size, hist, outside>>

\* the operation returns to its caller; the history is brought up to date
Return(t) ==
    LET r == th[t]
    IN  /\ r.pc = "ret"
        /\ last' = IF r.op = "insert" /\ r.res_ok THEN [last EXCEPT ![r.key] = r.val]
                   ELSE IF r.op = "delete" /\ r.res_ok THEN [last EXCEPT ![r.key] = 0]
                   ELSE last
        /\ nInsOk' = IF r.op = "insert" /\ r.res_ok THEN nInsOk + 1 ELSE nInsOk
        /\ nDelOk' = IF r.op = "delete" /\ r.res_ok THEN nDelOk + 1 ELSE nDelOk
        /\ Local(t, [IdleThread EXCEPT !.ops = r.ops, !.spun = r.spun,
                                       !.seen = r.seen])
        /\ UNCHANGED <<nodes, head, buckets, size, count, outside>>

----------------------------------------------------------------------------
(* OrderedListSet (list_set.rs): a sorted singly linked list with one Mutex  *)
(* per pointer.  A step is one acquisition of a Mutex, or the code between  *)
(* two acquisitions.                                                        *)

\* operations per thread on the set
LsOps == 3
\* the keys 1..LsMaxKey are drawn
LsMaxKey == 3

LsKeys == 1 .. LsMaxKey
\* no guard: a variable that is not initialised, or was moved out of
NoGuard == -1

LsIdle == [pc |-> "idle", op |-> "none", key |-> 0, prev_guard |-> NoGuard,
           next_guard |-> NoGuard, node |-> 0, res |-> FALSE, lin |-> FALSE,
           ops |-> 0]

\* OrderedListSet::new
LsInit ==
    /\ ls_nodes = <<>>
    /\ ls_head = 0
    /\ ls_locked = [m \in {0} |-> 0]
    /\ ls_th = [t \in Threads |-> LsIdle]
    /\ ls_ins = [k \in LsKeys |-> 0]
    /\ ls_rem = [k \in LsKeys |-> 0]

\* *guard: the pointer that Mutex m protects
LsDeref(m) == IF m = 0 THEN ls_head ELSE ls_nodes[m].next

\* *guard = p, as the values of head and of the nodes after it
LsHeadAfter(m, p) == IF m = 0 THEN p ELSE ls_head
LsNodesAfter(ns, m, p) == IF m = 0 THEN ns ELSE [ns EXCEPT ![m].next = p]

\* the nodes reachable from pointer p, in list order
RECURSIVE LsChain(_, _)
LsChain(p, fuel) ==
    IF p = 0 \/ fuel = 0 THEN <<>>
    ELSE <<p>> \o LsChain(ls_nodes[p].next, fuel - 1)

\* the list from head, as Iter visits it
LsList == LsChain(ls_head, Len(ls_nodes) + 1)
\* the set the list holds
LsSet == {ls_nodes[LsList[i]].data : i \in 1 .. Len(LsList)}

\* the guards a thread holds
LsHeld(t) == {m \in DOMAIN ls_locked : ls_locked[m] = t}

LsLocal(t, r) == ls_th' = [ls_th EXCEPT ![t] = r]

\* a call of contains, insert or remove
LsCall(t) ==
    /\ ls_th[t].pc = "idle"
    /\ ls_th[t].ops < LsOps
    /\ \E o \in {"contains", "insert", "remove"}, k \in LsKeys :
          LsLocal(t, [ls_th[t] EXCEPT !.pc = "head", !.op = o, !.key = k])
    /\ UNCHANGED <<ls_nodes, ls_head, ls_locked, ls_ins, ls_rem, solVars, pool>>

\* lines 69, 83-84, 108-109: self.head.lock(); the guard is the cursor of
\* find, and is moved into next_guard by insert and remove
LsLockHead(t) ==
    /\ ls_th[t].pc = "head"
    /\ ls_locked[0] = 0
    /\ ls_locked' = [ls_locked EXCEPT ![0] = t]
    /\ LsLocal(t, [ls_th[t] EXCEPT !.pc = "loop", !.next_guard = 0])
    /\ UNCHANGED <<ls_nodes, ls_head, ls_ins, ls_rem, solVars, pool>>

\* Cursor::find, lines 40-54, without the recursive call
FindCase(ptr, key) ==
    IF ptr = 0 THEN "false"
    ELSE IF ls_nodes[ptr].data = key THEN "true"
    ELSE IF ls_nodes[ptr].data > key THEN "false"
    ELSE "advance"

InsertCaseKeepsDuplicate(ptr, key) ==
    IF ptr = 0 THEN "link"
    ELSE IF ls_nodes[ptr].data >= key THEN "link"
    ELSE "advance"
InsertCaseNeverAdvances(ptr, key) ==
    IF ptr = 0 THEN "link"
    ELSE IF ls_nodes[ptr].data = key THEN "err"
    ELSE "link"
\* insert, lines 86-100: the branch taken for the node at next_guard
InsertCase(ptr, key) ==
    IF ptr = 0 THEN "link"
    ELSE IF ls_nodes[ptr].data > key THEN "link"
    ELSE IF ls_nodes[ptr].data < key THEN "advance"
    ELSE "err"

\* remove, lines 111-125: the branch taken for the node at next_guard
RemoveCase(ptr, key) ==
    IF ptr = 0 THEN "err"
    ELSE IF ls_nodes[ptr].data > key THEN "err"
    ELSE IF ls_nodes[ptr].data < key THEN "advance"
    ELSE "unlink"

\* the result of the operation is decided: res is its result, lin tells
\* whether the key is in the set at this step
LsDecide(r, ok) ==
    [r EXCEPT !.pc = "ret", !.res = ok, !.lin = r.key \in LsSet]

\* one iteration of the loop of insert or remove, or one call of
\* Cursor::find, up to the next lock()
LsLoop(t) ==
    LET r == ls_th[t]
        m == r.next_guard
        ptr == LsDeref(m)
        case == IF r.op = "insert" THEN InsertCase(ptr, r.key)
                ELSE IF r.op = "remove" THEN RemoveCase(ptr, r.key)
                ELSE FindCase(ptr, r.key)
        new == Len(ls_nodes) + 1
    IN  /\ r.pc = "loop"
        /\ CASE case = "link" ->
                  \* lines 89, 98: *next_guard = Node::new(key, *next_guard)
                  /\ ls_nodes' = LsNodesAfter(
                        Append(ls_nodes, [data |-> r.key, next |-> ptr,
                                          freed |-> FALSE]), m, new)
                  /\ ls_head' = LsHeadAfter(m, new)
                  /\ ls_locked' = [x \in DOMAIN ls_locked \cup {new} |->
                                     IF x = new THEN 0 ELSE ls_locked[x]]
                  /\ LsLocal(t, LsDecide(r, TRUE))
             [] case = "advance" /\ r.op = "contains" ->
                  \* line 52: the old guard is held while node.next is locked
                  /\ LsLocal(t, [r EXCEPT !.pc = "next"])
                  /\ UNCHANGED <<ls_nodes, ls_head, ls_locked>>
             [] case = "advance" /\ r.op # "contains" ->
                  \* lines 92, 116: prev_guard = next_guard drops the guard
                  \* that prev_guard held
                  /\ ls_locked' = [x \in DOMAIN ls_locked |->
                                     IF x = r.prev_guard THEN 0
                                     ELSE ls_locked[x]]
                  /\ LsLocal(t, [r EXCEPT !.pc = "next", !.prev_guard = m,
                                          !.next_guard = NoGuard])
                  /\ UNCHANGED <<ls_nodes, ls_head>>
             [] case = "unlink" ->
                  \* line 119: Box::from_raw(*next_guard)
                  /\ LsLocal(t, [r EXCEPT !.pc = "rm_lock", !.node = ptr])
                  /\ UNCHANGED <<ls_nodes, ls_head, ls_locked>>
             [] case \in {"true", "false", "err"} ->
                  /\ LsLocal(t, LsDecide(r, case = "true"))
                  /\ UNCHANGED <<ls_nodes, ls_head, ls_locked>>
        /\ UNCHANGED <<ls_ins, ls_rem, solVars, pool>>

\* lines 52, 93, 117: node.next.lock() of the node that the held guard
\* points to; blocks while another thread holds that guard
LsLockNext(t) ==
    LET r == ls_th[t]
        held == IF r.op = "contains" THEN r.next_guard ELSE r.prev_guard
        m == LsDeref(held)
    IN  /\ r.pc = "next"
        /\ ls_locked[m] = 0
        /\ ls_locked' = [x \in DOMAIN ls_locked |->
                           IF x = m THEN t
                           ELSE IF r.op = "contains" /\ x = held THEN 0
                           ELSE ls_locked[x]]
        /\ LsLocal(t, [r EXCEPT !.pc = "loop", !.next_guard = m])
        /\ UNCHANGED <<ls_nodes, ls_head, ls_ins, ls_rem, solVars, pool>>

\* remove, line 120: node.next.lock() of the node being removed
LsRemoveLock(t) ==
    LET r == ls_th[t]
    IN  /\ r.pc = "rm_lock"
        /\ ls_locked[r.node] = 0
        /\ ls_locked' = [ls_locked EXCEPT ![r.node] = t]
        /\ LsLocal(t, [r EXCEPT !.pc = "rm_write"])
        /\ UNCHANGED <<ls_nodes, ls_head, ls_ins, ls_rem, solVars, pool>>

\* remove, line 120: *next_guard = *guard of node.next; the temporary guard
\* is dropped at the end of the statement
LsRemoveWrite(t) ==
    LET r == ls_th[t]
        p == ls_nodes[r.node].next
    IN  /\ r.pc = "rm_write"
        /\ ls_nodes' = LsNodesAfter(ls_nodes, r.next_guard, p)
        /\ ls_head' = LsHeadAfter(r.next_guard, p)
        /\ ls_locked' = [ls_locked EXCEPT ![r.node] = 0]
        /\ LsLocal(t, LsDecide(r, TRUE))
        /\ UNCHANGED <<ls_ins, ls_rem, solVars, pool>>

\* return: the guards are dropped, and so is the Box of the removed node
LsReturn(t) ==
    LET r == ls_th[t]
    IN  /\ r.pc = "ret"
        /\ ls_locked' = [x \in DOMAIN ls_locked |->
                           IF ls_locked[x] = t THEN 0 ELSE ls_locked[x]]
        /\ ls_nodes' = IF r.op = "remove" /\ r.res
                       THEN [ls_nodes EXCEPT ![r.node].freed = TRUE]
                       ELSE ls_nodes
        /\ ls_ins' = IF r.op = "insert" /\ r.res
                     THEN [ls_ins EXCEPT ![r.key] = @ + 1] ELSE ls_ins
        /\ ls_rem' = IF r.op = "remove" /\ r.res
                     THEN [ls_rem EXCEPT ![r.key] = @ + 1] ELSE ls_rem
        /\ LsLocal(t, [LsIdle EXCEPT !.ops = r.ops + 1])
        /\ UNCHANGED <<ls_head, solVars, pool>>

----------------------------------------------------------------------------
(* ThreadPool (hello_server/thread_pool.rs).  The Mutex of ThreadPoolInner  *)
(* makes start_job, finish_job and each test of wait_empty atomic.          *)

\* ThreadPool::new(size): the number of worker threads
NumWorkers == 2
\* jobs passed to execute
MaxJobs == 3

WorkerIds == 1 .. NumWorkers
JobKinds == {"ok", "panic"}

PoolInit ==
    /\ job_queue = <<>>
    /\ job_sender = TRUE
    /\ job_count = 0
    /\ notified = FALSE
    /\ workers = [w \in WorkerIds |-> [pc |-> "recv", job |-> 0]]
    /\ jobs = <<>>
    /\ main = [pc |-> "run", snap |-> 0, i |-> 0, unwinding |-> FALSE,
               dq |-> 0]

\* a worker thread has ended, and with it its clone of the receiver
Ended(w) == workers[w].pc \in {"exited", "panicked"}

\* ThreadPool::execute: job_sender.send(job).unwrap().  send fails when
\* every receiver is gone; the panic of unwrap drops the pool, whose
\* workers have panicked: a panic while panicking aborts.
Execute(kind) ==
    /\ main.pc = "run"
    /\ Len(jobs) < MaxJobs
    /\ IF \A w \in WorkerIds : Ended(w)
       THEN /\ main' = [main EXCEPT !.pc = "aborted"]
            /\ UNCHANGED <<job_queue, jobs>>
       ELSE /\ jobs' = Append(jobs, [kind |-> kind, st |-> "queued"])
            /\ job_queue' = Append(job_queue, Len(jobs) + 1)
            /\ main' = main
    /\ UNCHANGED <<job_sender, job_count, notified, workers, solVars, listSet>>

\* worker loop, lines 95-98: receiver.recv() takes the oldest job, blocks
\* on an empty channel, and fails once it is empty and the sender is gone
Recv(w) ==
    /\ workers[w].pc = "recv"
    /\ IF job_queue # <<>>
       THEN /\ workers' = [workers EXCEPT ![w] = [pc |-> "start",
                                                  job |-> Head(job_queue)]]
            /\ job_queue' = Tail(job_queue)
       ELSE /\ ~job_sender
            /\ workers' = [workers EXCEPT ![w] = [pc |-> "exited", job |-> 0]]
            /\ job_queue' = job_queue
    /\ UNCHANGED <<job_sender, job_count, notified, jobs, main, solVars, listSet>>

\* ThreadPoolInner::start_job
StartJob(w) ==
    /\ workers[w].pc = "start"
    /\ job_count' = job_count + 1
    /\ notified' = IF job_count' = 0 /\ main.pc = "waiting" THEN TRUE
                   ELSE notified
    /\ workers' = [workers EXCEPT ![w].pc = "job"]
    /\ jobs' = [jobs EXCEPT ![workers[w].job].st = "running"]
    /\ UNCHANGED <<job_queue, job_sender, main, solVars, listSet>>

\* worker loop, line 101: x(); a job that panics ends the worker thread
RunJob(w) ==
    LET j == workers[w].job
    IN  /\ workers[w].pc = "job"
        /\ IF jobs[j].kind = "panic"
           THEN /\ jobs' = [jobs EXCEPT ![j].st = "panicked"]
                /\ workers' = [workers EXCEPT ![w].pc = "panicked"]
           ELSE /\ jobs' = [jobs EXCEPT ![j].st = "done"]
                /\ workers' = [workers EXCEPT ![w].pc = "finish"]
        /\ UNCHANGED <<job_queue, job_sender, job_count, notified, main,
                       solVars, listSet>>

\* ThreadPoolInner::finish_job: notify_one wakes the waiter, if there is one
FinishJob(w) ==
    /\ workers[w].pc = "finish"
    /\ job_count' = job_count - 1
    /\ notified' = IF job_count' = 0 /\ main.pc = "waiting" THEN TRUE
                   ELSE notified
    /\ workers' = [workers EXCEPT ![w] = [pc |-> "recv", job |-> 0]]
    /\ UNCHANGED <<job_queue, job_sender, jobs, main, solVars, listSet>>

\* ThreadPoolInner::wait_empty, line 62: while *count != 0
WaitEmptyBlocks(c) == c # 0

\* ThreadPool::join: wait_empty locks job_count and tests it.  snap is the
\* number of jobs passed to execute before this call.
JoinCall ==
    /\ main.pc = "run"
    /\ main' = [main EXCEPT !.snap = Len(jobs),
                            !.pc = IF WaitEmptyBlocks(job_count)
                                   THEN "waiting" ELSE "joined"]
    /\ UNCHANGED <<job_queue, job_sender, job_count, notified, workers, jobs,
                   solVars, listSet>>

\* wait_empty, line 63: Condvar::wait returns after notify_one, or
\* spuriously; the loop tests the count again
JoinWake ==
    /\ main.pc = "waiting"
    /\ \E spurious \in BOOLEAN : notified \/ spurious
    /\ notified' = FALSE
    /\ main' = [main EXCEPT !.pc = IF WaitEmptyBlocks(job_count)
                                   THEN "waiting" ELSE "joined"]
    /\ UNCHANGED <<job_queue, job_sender, job_count, workers, jobs, solVars,
                   listSet>>

\* join has returned to the caller
JoinReturn ==
    /\ main.pc = "joined"
    /\ main' = [main EXCEPT !.pc = "run", !.snap = 0]
    /\ UNCHANGED <<job_queue, job_sender, job_count, notified, workers, jobs,
                   solVars, listSet>>

\* Drop for ThreadPool, lines 140-144: the sender is taken and dropped;
\* then the fields are dropped, workers first.  dq is the number of jobs
\* still queued at that moment.
DropCall ==
    /\ main.pc = "run"
    /\ job_sender' = FALSE
    /\ main' = [main EXCEPT !.pc = "dropping", !.i = 1,
                            !.dq = Len(job_queue)]
    /\ UNCHANGED <<job_queue, job_count, notified, workers, jobs, solVars,
                   listSet>>

WorkerDropDetached(w) == TRUE
\* Drop for Worker, lines 23-24: thread.join() returns once the thread
\* has ended
WorkerDropReady(w) == Ended(w)

JoinUnwrapIgnored(w) == FALSE
\* Drop for Worker, line 24: join() of a thread that panicked is Err, and
\* unwrap() of it panics
JoinUnwrapPanics(w) == workers[w].pc = "panicked"

\* Drop for Worker of worker main.i: join().unwrap() panics if the worker
\* panicked; the remaining workers are still dropped while unwinding, and
\* a second panic aborts the process
DropWorker ==
    LET w == main.i
        bad == JoinUnwrapPanics(w)
        unwinding == main.unwinding \/ bad
    IN  /\ main.pc = "dropping"
        /\ WorkerDropReady(w)
        /\ main' = IF bad /\ main.unwinding
                   THEN [main EXCEPT !.pc = "aborted"]
                   ELSE IF w = NumWorkers
                   THEN [main EXCEPT !.pc = IF unwinding THEN "drop_panicked"
                                            ELSE "dropped",
                                     !.unwinding = unwinding, !.i = w + 1]
                   ELSE [main EXCEPT !.unwinding = unwinding, !.i = w + 1]
        /\ UNCHANGED <<job_queue, job_sender, job_count, notified, workers,
                       jobs, solVars, listSet>>

PoolNext ==
    \/ \E kind \in JobKinds : Execute(kind)
    \/ JoinCall \/ JoinWake \/ JoinReturn
    \/ DropCall \/ DropWorker
    \/ \E w \in WorkerIds : Recv(w) \/ StartJob(w) \/ RunJob(w) \/ FinishJob(w)

Init == SolInit /\ PoolInit /\ LsInit

SpecPool == Init /\ [][PoolNext]_vars

\* C4: join returns only after every job passed to execute before the
\* call has finished running, the jobs still queued in the channel included.
C4_JoinWaitsForQueuedJobs ==
    main.pc = "joined"
      => \A j \in 1 .. main.snap : jobs[j].st \in {"done", "panicked"}

\* C10: drop returns only after the sender is closed, the queue is drained,
\* every job passed to execute has run to completion and every worker
\* thread has ended and been joined; while drop runs, the workers already
\* dropped have ended.
C10_DropBlocksUntilJobsDone ==
    /\ main.pc = "dropped"
         => /\ ~job_sender
            /\ job_queue = <<>>
            /\ \A j \in 1 .. Len(jobs) : jobs[j].st = "done"
            /\ \A w \in WorkerIds : workers[w].pc = "exited"
    /\ main.pc \in {"dropping", "dropped", "drop_panicked"}
         => \A w \in WorkerIds : w < main.i => Ended(w)

\* drop returned although jobs were still queued when it was called
C10_Witness ==
    main.pc = "dropped" /\ main.dq >= 2 /\ Len(jobs) = MaxJobs

\* C11: if a job panicked inside a worker, drop of the pool does not return
\* normally: it panics (or aborts on a second panic while unwinding),
\* whichever worker ran the job and however many other jobs completed; the
\* panic is raised as soon as drop has joined the worker that panicked.
C11_DropPropagatesPanic ==
    /\ main.pc = "dropped" => \A j \in 1 .. Len(jobs) : jobs[j].kind # "panic"
    /\ main.pc \in {"dropping", "dropped", "drop_panicked"}
         => \A w \in WorkerIds :
               w < main.i /\ workers[w].pc = "panicked" => main.unwinding

\* drop panicked for a job that the last worker ran, after two other jobs
\* completed normally and the first worker exited normally
C11_Witness ==
    /\ main.pc = "drop_panicked"
    /\ workers[NumWorkers].pc = "panicked"
    /\ workers[1].pc = "exited"
    /\ Cardinality({j \in 1 .. Len(jobs) : jobs[j].st = "done"}) >= 2

----------------------------------------------------------------------------
(* Spec: NumThreads threads, each calling up to MaxOps operations with any  *)
(* of the keys 0..MaxKey and one key with the top bit set.  Within these    *)
(* bounds no insert reaches the doubling of size (GrowUnreachedInSpec), so  *)
(* InsGrow is an action of SpecGrow only.                                   *)

OpKinds == {"lookup", "insert", "delete"}

Call(t) ==
    /\ th[t].ops < MaxOps
    /\ \E o \in OpKinds, k \in (0 .. MaxKey) \cup {BadKey} : Begin(t, o, k)

Next ==
    \E t \in Threads :
        \/ Call(t)
        \/ LbLoad(t) \/ LbHead(t) \/ LbFind(t) \/ LbClean(t) \/ LbCas(t)
        \/ LbStore(t)
        \/ Find(t) \/ FClean(t)
        \/ InsCas(t) \/ InsAdd(t)
        \/ DelMark(t) \/ DelUnlink(t) \/ DelSub(t)
        \/ Return(t)

Spec == Init /\ [][Next]_vars

GrowUnreachedInSpec == \A t \in Threads : th[t].pc # "ins_grow"

----------------------------------------------------------------------------
(* Claims checked under Spec *)

UserKeys == 0 .. (BadKey - 1)

\* a thread whose insert has linked its regular node
HasLinked(t) == th[t].op = "insert" /\ th[t].linked = 1

\* C1: for every user key the list holds at most one live regular node with
\* the transformed key (and every unmarked node ever linked is still in the
\* list); two inserts of one key that both linked a node never have both
\* nodes live, so two concurrent inserts of an absent key do not both win.
C1_Uniqueness ==
    /\ \A k \in UserKeys : Cardinality(LiveWithKey(RegularKey(k))) <= 1
    /\ \A n \in 1 .. Len(nodes) : ~nodes[n].mark => n \in Reachable
    /\ \A t, u \in Threads :
         (t # u /\ HasLinked(t) /\ HasLinked(u) /\ th[t].key = th[u].key)
           => (th[t].curr # th[u].curr
               /\ (nodes[th[t].curr].mark \/ nodes[th[u].curr].mark))

\* two inserts of the same absent key ran concurrently up to their
\* compare-and-set: one returned Ok, the other lost and returned Err
C1_Witness ==
    /\ th[1].op = "insert" /\ th[2].op = "insert"
    /\ th[1].key = th[2].key
    /\ th[1].pre = 0 /\ th[2].pre = 0
    /\ th[1].pc = "ret" /\ th[1].res_ok
    /\ th[2].pc = "ret" /\ ~th[2].res_ok /\ ~th[2].found

\* C2: a lookup that returns Some(v) read v from the regular node of its
\* own key, and v is the value the map held for the key (linked by an
\* insert of that key and not deleted) at the moment the search ended.
C2_LookupLinearizable ==
    \A t \in Threads :
        (th[t].pc = "ret" /\ th[t].op = "lookup" /\ th[t].res_ok)
          => /\ th[t].res_val # 0
             /\ th[t].res_val = th[t].lin
             /\ nodes[th[t].curr].key = RegularKey(th[t].key)
             /\ nodes[th[t].curr].value = th[t].res_val

\* a lookup returns Some(v) for a key that another thread has deleted since
C2_Witness ==
    \E t \in Threads :
        /\ th[t].pc = "ret" /\ th[t].op = "lookup" /\ th[t].res_ok
        /\ LiveVal(th[t].key) = 0

\* C3: the find-or-insert loop of lookup_bucket never retries an iteration
\* during which no thread changed the list (such a retry repeats for ever
\* once the other threads stop), and it is left only with the sentinel of
\* the bucket in the list.
C3_BucketLoopTerminates ==
    \A t \in Threads :
        /\ ~th[t].spun
        /\ th[t].pc = "lb_store"
             => /\ th[t].curr \in Reachable
                /\ nodes[th[t].curr].key = SentinelKey(Head(th[t].stack))

\* C6: the only panic is assert_valid_key on a key with the top bit set.
C6_OnlyKeyRangePanic ==
    \A t \in Threads :
        th[t].pc = "panic"
          => (th[t].why = "assert_valid_key" /\ ~valid_key(th[t].key))

----------------------------------------------------------------------------
(* SpecDisjoint: the threads call up to DisjOps operations each, on keys of *)
(* pairwise disjoint ranges, so no two operations on one key overlap.  The  *)
(* ranges hold three keys, so size never doubles.                           *)

DisjOps == 3

OwnKeys(t) == IF t = 1 THEN {0, 1} ELSE {t}

CallOwn(t) ==
    /\ th[t].ops < DisjOps
    /\ \E o \in OpKinds, k \in OwnKeys(t) : Begin(t, o, k)

NextDisjoint ==
    \E t \in Threads :
        \/ CallOwn(t)
        \/ LbLoad(t) \/ LbHead(t) \/ LbFind(t) \/ LbClean(t) \/ LbCas(t)
        \/ LbStore(t)
        \/ Find(t) \/ FClean(t)
        \/ InsCas(t) \/ InsAdd(t)
        \/ DelMark(t) \/ DelUnlink(t) \/ DelSub(t)
        \/ Return(t)

SpecDisjoint == Init /\ [][NextDisjoint]_vars

\* every operation has returned
Quiescent == \A t \in Threads : th[t].pc = "idle"

\* the live regular nodes of the list
LiveRegular == {n \in LiveNodes : nodes[n].value # 0}

\* C5: when threads that work on disjoint key ranges have all finished,
\* count is the number of inserts that returned Ok minus the number of
\* deletes that returned Ok, which is the number of live regular nodes; a
\* key is live, once, with the value last inserted, exactly when its last
\* successful operation was an insert.
C5_CountAtQuiescence ==
    Quiescent
      => /\ count = nInsOk - nDelOk
         /\ count = Cardinality(LiveRegular)
         /\ \A k \in UserKeys :
              /\ LiveVal(k) = last[k]
              /\ Cardinality(LiveWithKey(RegularKey(k))) =
                   IF last[k] = 0 THEN 0 ELSE 1

\* both threads used all their operations, with inserts and deletes that
\* succeeded on both sides and keys left in the map
C5_Witness ==
    /\ Quiescent
    /\ \A t \in Threads : th[t].ops = DisjOps
    /\ nInsOk >= 3 /\ nDelOk >= 1 /\ count >= 2
    /\ last[2] # 0

\* C8: an insert of a key that is live when it is called (no other thread
\* works on the key) returns Err with its own value; the map still holds
\* the original value in its one regular node for the key, and the call
\* has linked no regular node and changed neither count nor size.
C8_DuplicateInsertRejected ==
    \A t \in Threads :
        (th[t].pc = "ret" /\ th[t].op = "insert" /\ th[t].pre # 0)
          => /\ ~th[t].res_ok
             /\ th[t].res_val = th[t].val
             /\ th[t].val # th[t].pre
             /\ LiveVal(th[t].key) = th[t].pre
             /\ Cardinality({n \in 1 .. Len(nodes) :
                               /\ nodes[n].key = RegularKey(th[t].key)
                               /\ ~nodes[n].mark}) = 1
             /\ th[t].linked = 0
             /\ th[t].dcount = 0
             /\ ~th[t].resized

\* a second insert of a live key returns while another thread is at work
C8_Witness ==
    /\ th[1].pc = "ret" /\ th[1].op = "insert" /\ th[1].pre # 0
    /\ ~th[1].res_ok
    /\ th[2].pc \notin {"idle", "ret"}

\* C9: with no other operation on the key, a delete of a key whose last
\* successful operation was insert(k, a) returns Ok(a), decrements count
\* by one and leaves the key absent; from then on, until the key is
\* inserted again, lookup returns None and delete returns Err(()) and
\* leaves count alone.
C9_DeleteThenLookup ==
    \A t \in Threads :
        th[t].pc = "ret"
          => /\ (th[t].op = "delete" /\ th[t].pre # 0)
                  => /\ th[t].res_ok
                     /\ th[t].res_val = th[t].pre
                     /\ th[t].dcount = MaxWord
                     /\ LiveVal(th[t].key) = 0
             /\ (th[t].op = "delete" /\ th[t].pre = 0)
                  => /\ ~th[t].res_ok
                     /\ th[t].dcount = 0
             /\ (th[t].op = "lookup" /\ th[t].pre = 0) => ~th[t].res_ok

\* a thread inserted a key, deleted it, and its second delete returns Err
C9_Witness ==
    \E t \in Threads :
        /\ th[t].pc = "ret" /\ th[t].op = "delete" /\ ~th[t].res_ok
        /\ th[t].ops = 3
        /\ nDelOk >= 1
        /\ \E n \in 1 .. Len(nodes) :
             nodes[n].key = RegularKey(th[t].key) /\ nodes[n].mark

----------------------------------------------------------------------------
(* SpecGrow: the threads insert the keys 0..GrowMaxKey, each thread its     *)
(* own, lowest first and again after a lost compare-and-set; the last       *)
(* thread also looks up keys whose insert has returned.  Nothing is         *)
(* deleted.                                                                 *)

GrowOps == 4
GrowMaxKey == 4

GrowKeys(t) == {k \in 0 .. GrowMaxKey : k % NumThreads = t - 1}
Pending(t) == {k \in GrowKeys(t) : last[k] = 0}
Lowest(S) == CHOOSE k \in S : \A j \in S : k <= j

CallGrow(t) ==
    /\ th[t].ops < GrowOps
    /\ \/ Pending(t) # {} /\ Begin(t, "insert", Lowest(Pending(t)))
       \/ /\ t = NumThreads
          /\ \E k \in 0 .. GrowMaxKey : last[k] # 0 /\ Begin(t, "lookup", k)

NextGrow ==
    \E t \in Threads :
        \/ CallGrow(t)
        \/ LbLoad(t) \/ LbHead(t) \/ LbFind(t) \/ LbCas(t) \/ LbStore(t)
        \/ Find(t)
        \/ InsCas(t) \/ InsAdd(t) \/ InsGrow(t)
        \/ Return(t)

SpecGrow == Init /\ [][NextGrow]_vars

\* C7: once size * LOAD_FACTOR + 1 inserts of distinct keys have returned
\* Ok, with no delete, size has doubled; and a lookup of a key whose
\* insert returned before the lookup was called returns its value, whatever
\* size the lookup has read.
C7_Growth ==
    /\ nInsOk >= InitialSize * LOAD_FACTOR + 1 => size >= 2 * InitialSize
    /\ \A t \in Threads :
         (th[t].pc = "ret" /\ th[t].op = "lookup" /\ th[t].pre # 0)
           => (th[t].res_ok /\ th[t].res_val = th[t].pre)

\* five keys are in, size has doubled, and the last operation, a lookup
\* that read the old size, returns the value of its key
C7_Witness ==
    /\ nInsOk = InitialSize * LOAD_FACTOR + 1
    /\ size = 2 * InitialSize
    /\ \E t \in Threads :
         /\ th[t].pc = "ret" /\ th[t].op = "lookup" /\ th[t].res_ok
         /\ th[t].size = InitialSize
         /\ th[t].ops = GrowOps
         /\ \A u \in Threads \ {t} : th[u].pc = "idle" /\ Pending(u) = {}

----------------------------------------------------------------------------
(* SpecParent: thread 1 inserts the even keys 0..ParentMaxKey, lowest      *)
(* first and again after a lost compare-and-set, which all fall into        *)
(* bucket 0 of the initial table and double its size; the other threads     *)
(* look up or insert keys of bucket 3 of the doubled table at any time, so  *)
(* that bucket 3 is resolved while its parent, bucket 1, is not there yet.  *)

\* thread 1 inserts the even keys up to ParentMaxKey
ParentMaxKey == 8
\* operations of thread 1
ParentFillOps == 6
\* operations of each other thread
ParentOps == 2

EvenPending == {k \in 0 .. ParentMaxKey : k % 2 = 0 /\ last[k] = 0}

CallParent(t) ==
    IF t = 1
    THEN /\ th[t].ops < ParentFillOps
         /\ EvenPending # {}
         /\ Begin(t, "insert", Lowest(EvenPending))
    ELSE /\ th[t].ops < ParentOps
         /\ \E o \in {"lookup", "insert"}, k \in {3, 7} : Begin(t, o, k)

NextParent ==
    \E t \in Threads :
        \/ CallParent(t)
        \/ LbLoad(t) \/ LbHead(t) \/ LbFind(t) \/ LbCas(t) \/ LbStore(t)
        \/ Find(t)
        \/ InsCas(t) \/ InsAdd(t) \/ InsGrow(t)
        \/ Return(t)

SpecParent == Init /\ [][NextParent]_vars

\* node n is the sentinel of bucket i, linked and not marked deleted
IsSentinelOf(n, i) ==
    n \in LiveNodes /\ nodes[n].key = SentinelKey(i) /\ nodes[n].value = 0

\* thread t is in lookup_bucket for bucket Head(stack), past the choice of
\* its starting cursor
PastStart(t) == th[t].pc \in LoopPcs \cup {"lb_store"}

----------------------------------------------------------------------------
(* Claims on the bucket slots, checked under Spec, where threads race to    *)
(* resolve buckets 0 and 1 while regular nodes are inserted and deleted.    *)

\* key is the key of the sentinel of some bucket; a bucket index is a valid
\* key modulo size
IsSentinelKey(key) == \E i \in 0 .. (BadKey - 1) : key = SentinelKey(i)

\* what holds of the slots and sentinels in every state; the nodes in the
\* list are counted with the marked ones
SlotsPointToSentinels ==
    /\ LET R == Reachable
       IN  \A n, m \in R :
               (n # m /\ nodes[n].key = nodes[m].key)
                  => ~IsSentinelKey(nodes[n].key)
    /\ \A i \in Words : buckets[i] # 0 => IsSentinelOf(buckets[i], i)
    /\ \A t \in Threads :
          th[t].pc = "lb_store" =>
              LET i == Head(th[t].stack)
              IN  /\ IsSentinelOf(th[t].curr, i)
                  /\ buckets[i] # 0 => th[t].curr = buckets[i]

\* a step leaves every slot that is not null as it is
SlotsStable == \A i \in Words : buckets[i] # 0 => buckets'[i] = buckets[i]

\* C15: the list holds at most one sentinel per bucket; every store to
\* buckets[i], by whichever thread, writes the pointer to that node; a slot
\* that is not null never changes, and its node is never marked deleted or
\* unlinked.
C15_BucketSlotStability == [](SlotsPointToSentinels) /\ [][SlotsStable]_vars

\* a thread that lost the race stores to a slot that another thread has
\* filled already, while a regular node of the list is marked deleted
C15_Witness ==
    \E t \in Threads :
        /\ th[t].pc = "lb_store"
        /\ buckets[Head(th[t].stack)] # 0
        /\ \E n \in 1 .. Len(nodes) : nodes[n].mark

\* thread t is in a delete whose Cursor::delete has marked the node curr
DeleteWon(t) ==
    /\ th[t].op = "delete"
    /\ \/ th[t].pc \in {"del_unlink", "del_sub"}
       \/ th[t].pc = "ret" /\ th[t].res_ok

\* C16: of the deletes that race for one live regular node exactly one
\* returns Ok, with the value of the node, and decrements count once; each
\* other one returns Err(()) and leaves count alone; every node marked
\* deleted belongs to exactly one successful delete.
C16_DeleteRace ==
    /\ \A t, u \in Threads :
          (t # u /\ DeleteWon(t) /\ DeleteWon(u)) => th[t].curr # th[u].curr
    /\ Cardinality({n \in 1 .. Len(nodes) : nodes[n].mark})
         = nDelOk + Cardinality({t \in Threads : DeleteWon(t)})
    /\ \A t \in Threads :
          (th[t].pc = "ret" /\ th[t].op = "delete") =>
              IF th[t].res_ok
              THEN /\ th[t].dcount = MaxWord
                   /\ th[t].res_val = nodes[th[t].curr].value
                   /\ nodes[th[t].curr].key = RegularKey(th[t].key)
                   /\ nodes[th[t].curr].mark
              ELSE th[t].dcount = 0 /\ th[t].res_val = 0

\* two deletes found the same live node; one returns Ok and the other Err
C16_Witness ==
    \E t, u \in Threads :
        /\ th[t].pc = "ret" /\ th[t].op = "delete" /\ th[t].res_ok
        /\ th[u].pc = "ret" /\ th[u].op = "delete" /\ ~th[u].res_ok
        /\ th[u].found /\ th[u].curr = th[t].curr

\* C17: an insert calls cursor.insert at most once, and exactly once when
\* find did not find the key; when that compare-and-set is lost the call
\* returns Err(v) with its own value, has linked no node, and has changed
\* neither count nor size.
C17_InsertNoRetry ==
    \A t \in Threads :
        LET r == th[t]
        IN  r.op = "insert" =>
              /\ r.tries <= 1
              /\ r.linked <= r.tries
              /\ (r.pc = "ret" /\ ~r.found) => r.tries = 1
              /\ (r.pc = "ret" /\ ~r.found /\ ~r.res_ok) =>
                    /\ r.res_val = r.val
                    /\ r.linked = 0
                    /\ r.dcount = 0
                    /\ ~r.resized

\* an insert returns Err after a lost compare-and-set although the map
\* holds no value for its key
C17_Witness ==
    \E t \in Threads :
        /\ th[t].pc = "ret" /\ th[t].op = "insert"
        /\ ~th[t].found /\ ~th[t].res_ok /\ th[t].tries = 1
        /\ LiveVal(th[t].key) = 0

\* C18: count never wraps below 0 to usize::MAX, also when a delete of a
\* key runs between the link of that key by an insert and the fetch_add of
\* that insert; and no insert goes on to double size while fewer than
\* size * LOAD_FACTOR regular nodes are live.
C18_CountNeverUnderflows ==
    /\ count # MaxWord
    /\ \A t \in Threads :
          th[t].pc = "ins_grow"
            => Cardinality(LiveRegular) >= th[t].size * LOAD_FACTOR

----------------------------------------------------------------------------
(* SpecListSet: NumThreads threads, each calling up to LsOps operations of  *)
(* OrderedListSet with any of the keys 1..LsMaxKey, on a set that is empty  *)
(* after construction.                                                      *)

LsNext ==
    \E t \in Threads :
        \/ LsCall(t) \/ LsLockHead(t) \/ LsLoop(t) \/ LsLockNext(t)
        \/ LsRemoveLock(t) \/ LsRemoveWrite(t) \/ LsReturn(t)

SpecListSet == Init /\ [][LsNext]_vars

\* the operations of kind o on key k that have succeeded, those about to
\* return included
LsDone(o, k) ==
    (IF o = "insert" THEN ls_ins[k] ELSE ls_rem[k])
    + Cardinality({t \in Threads : /\ ls_th[t].pc = "ret" /\ ls_th[t].op = o
                                   /\ ls_th[t].key = k /\ ls_th[t].res})

\* C12: each operation takes effect at one step of its call, on the set the
\* list holds at that step: insert returns Err exactly when the key is in
\* the set and otherwise adds it, remove returns Ok exactly when the key is
\* in the set and then removes it, contains returns whether the key is in
\* the set; for every key the successful inserts and removes alternate, so
\* of the inserts (removes) that race for one key exactly one succeeds.
C12_SetSemantics ==
    /\ \A t \in Threads :
          LET r == ls_th[t]
          IN  r.pc = "ret" =>
                /\ r.op = "contains" => r.res = r.lin
                /\ r.op = "insert" => /\ r.res = ~r.lin
                                      /\ r.key \in LsSet
                /\ r.op = "remove" => /\ r.res = r.lin
                                      /\ r.res => r.key \notin LsSet
    /\ \A k \in LsKeys :
          LsDone("insert", k) - LsDone("remove", k)
            = IF k \in LsSet THEN 1 ELSE 0

\* an insert of a key that is in the set returns Err while another thread
\* removes another key
C12_Witness ==
    \E t, u \in Threads :
        /\ ls_th[t].pc = "ret" /\ ls_th[t].op = "insert" /\ ~ls_th[t].res
        /\ ls_th[u].pc = "ret" /\ ls_th[u].op = "remove" /\ ls_th[u].res
        /\ ls_rem[ls_th[t].key] = 0

\* the list from head is in strictly increasing order of data
LsSorted ==
    \A i \in 1 .. Len(LsList) - 1 :
        ls_nodes[LsList[i]].data < ls_nodes[LsList[i + 1]].data

\* the guards of a thread are those of its variables, each guards the
\* pointer to the node of the next one, and all are in the list
LsLockOrder ==
    \A t \in Threads :
        LET r == ls_th[t]
            tmp == IF r.pc = "rm_write" THEN {r.node} ELSE {}
        IN  /\ LsHeld(t) = ({r.prev_guard, r.next_guard} \ {NoGuard}) \cup tmp
            /\ r.prev_guard # NoGuard /\ r.next_guard # NoGuard
                 => LsDeref(r.prev_guard) = r.next_guard
            /\ r.pc = "rm_write" => LsDeref(r.next_guard) = r.node
            /\ \A m \in LsHeld(t) :
                  m = 0 \/ \E i \in 1 .. Len(LsList) : LsList[i] = m

\* a thread inside an operation that can take its next step
LsCanStep(t) ==
    LET r == ls_th[t]
    IN  \/ r.pc \in {"loop", "rm_write", "ret"}
        \/ r.pc = "head" /\ ls_locked[0] = 0
        \/ r.pc = "next"
             /\ ls_locked[LsDeref(IF r.op = "contains" THEN r.next_guard
                                  ELSE r.prev_guard)] = 0
        \/ r.pc = "rm_lock" /\ ls_locked[r.node] = 0

\* while an operation is running, some running operation can take a step
LsNoDeadlock ==
    (\E t \in Threads : ls_th[t].pc # "idle")
      => \E t \in Threads : ls_th[t].pc # "idle" /\ LsCanStep(t)

\* no freed node is in the list, locked, or about to be locked
LsNoDangling ==
    /\ \A i \in 1 .. Len(LsList) : ~ls_nodes[LsList[i]].freed
    /\ \A m \in DOMAIN ls_locked \ {0} :
          ls_locked[m] # 0 => ~ls_nodes[m].freed

\* C13 as amended: the list from head is always strictly increasing; a
\* thread holds at most two guards while it traverses and a third one, of
\* the node it removes, during the unlink in remove; the guards are always
\* acquired in list order, and no set of calls deadlocks.
C13_SortedLockCoupling ==
    /\ LsSorted
    /\ \A t \in Threads :
          Cardinality(LsHeld(t)) <= IF ls_th[t].pc = "rm_write" THEN 3 ELSE 2
    /\ LsLockOrder
    /\ LsNoDeadlock

\* remove holds the guards of three nodes while another thread waits
C13_Witness ==
    \E t, u \in Threads :
        /\ ls_th[t].pc = "rm_write"
        /\ Cardinality(LsHeld(t) \ {0}) = 3
        /\ ls_th[u].pc = "next" /\ ~LsCanStep(u)

\* C13 as stated: sorted without duplicates, at most two node locks per
\* thread at any time, acquired in list order, no deadlock
C13_AtMostTwoNodeLocks ==
    /\ LsSorted
    /\ \A t \in Threads : Cardinality(LsHeld(t) \ {0}) <= 2
    /\ LsLockOrder
    /\ LsNoDeadlock

====
